---- MODULE Spec2Model ----
(***************************************************************************)
(* A model of rl-swarm's stage-output merger (hivemind_exp/gsm8k/          *)
(* stage_merger.py) and of the swarm-state cache served by the web API     *)
(* (web/api/server_cache.py, web/api/server.py).                           *)
(***************************************************************************)
EXTENDS Integers, Sequences, FiniteSets, TLC

VARIABLES
    outputs,    \* merger: the input mapping agent -> raw output, as the
                \* sequence of its (agent, output) items in iteration order
    merged,     \* merger: what the last call returned
    mfn,        \* merger: which function the last call was (0: none, 1, 2)
    mcalls,     \* merger: number of calls made on `outputs`
    current_round,  \* Cache.current_round (-1: never observed)
    current_stage,  \* Cache.current_stage (-1: never observed)
    leaderboard,    \* Cache.leaderboard
    gossips,        \* Cache.gossips
    last_polled,    \* Cache.last_polled (-1: never polled)
    pc,         \* poller: where populate_cache / poll_dht stands
    cycle,      \* poller: poll cycles started
    obs,        \* poller: what its last step read from the store
    now,        \* the wall clock
    rdLB,       \* reader: what its get_leaderboard() returned, and when
    rdG,        \* reader: what its get_gossips() returned, and when
    snapshots,  \* the (leaderboard, gossips) pairs at the cycle boundaries
    health,     \* what the last health check answered
    roster,     \* what the last call of the peers endpoint answered
    lock,       \* Cache.lock: who holds it
    writing,    \* poller: the field it is assigning inside `with self.lock`
    reading,    \* reader: the read operation of the cache it is inside
    active,             \* PeerDiscovery._active
    discovered_peers,   \* PeerDiscovery.discovered_peers
    zeroconf,           \* PeerDiscovery.zeroconf (None, or the open handle)
    browser,            \* PeerDiscovery.browser (None, or the running browser)
    enable_local_discovery, \* PeerDiscovery.enable_local_discovery
    cache_file,         \* the file at PeerDiscovery.cache_file
    saved,      \* the discovered set of the last write of the cache file
    iter,       \* discovery: whether get_peers is iterating over the set
    dop         \* discovery: the last operation and what it did

mergerVars == <<outputs, merged, mfn, mcalls>>
cacheVars == <<current_round, current_stage, leaderboard, gossips, last_polled>>
pollerVars == <<pc, cycle, obs>>
readerVars == <<rdLB, rdG, snapshots>>
healthVars == <<health>>
serverVars == <<roster, lock, writing, reading>>
discoveryVars == <<active, discovered_peers, zeroconf, browser, enable_local_discovery,
                   cache_file, saved, iter, dop>>
vars == <<mergerVars, cacheVars, pollerVars, now, readerVars, healthVars, serverVars,
          discoveryVars>>

(***************************************************************************)
(* Bounds of the model.                                                    *)
(***************************************************************************)
MaxEntries == 2     \* entries of a merger input
MaxCalls == 2       \* calls of a merge function on one input
MaxCycles == 2      \* poll cycles of the background poller
MaxPub == 2         \* outputs entries the store holds during one gossip assembly
MaxTime == 7        \* minutes the wall clock runs
MaxCount == 2       \* the largest count asked of get_bootstrap_peers

(***************************************************************************)
(* Python values.  A dict is a function; a value whose type the code tests *)
(* with isinstance carries its type.                                       *)
(***************************************************************************)
None == "None"
EmptyDict == [k \in {} |-> None]
PyDict(d) == [type |-> "dict", items |-> d]
PyStr(s) == [type |-> "str", str |-> s]
IsDict(v) == v.type = "dict"

\* The outcome of a call that raised instead of returning.
Raised == [raised |-> TRUE]
\* `merged` before any call.
NoResult == [pending |-> TRUE]

(***************************************************************************)
(* The merger's inputs: agent ids, and the raw outputs an agent may have   *)
(* submitted.  A well-formed output carries the texts of one submission t  *)
(* and a contribution dict; a malformed one is submission 0 with one       *)
(* required key deleted, or with a string where the dict should be.        *)
(***************************************************************************)
Agents == {"a1", "a2", "a3"}
Submissions == {1, 2}
QText == <<"Q0", "Q1", "Q2">>
AText == <<"A0", "A1", "A2">>
PText == <<"P0", "P1", "P2">>
XText == <<"x0", "x1", "x2">>

Stage1Keys == {"question", "answer", "agent_answers"}
Stage2Keys == {"question", "answer", "stage2_prompt", "agent_opinion"}
Stage1Placeholder == "No answer received..."
Stage2Placeholder == "No feedback received..."

ContribDicts(t) ==
    {[a \in S |-> XText[t + 1]] : S \in {S \in SUBSET Agents : Cardinality(S) <= 1}}

FullOutput(stage, t, c) ==
    IF stage = 1
    THEN [question |-> QText[t + 1], answer |-> AText[t + 1], agent_answers |-> c]
    ELSE [question |-> QText[t + 1], answer |-> AText[t + 1],
          stage2_prompt |-> PText[t + 1], agent_opinion |-> c]

StageKeys(stage) == IF stage = 1 THEN Stage1Keys ELSE Stage2Keys
ContribKey(stage) == IF stage = 1 THEN "agent_answers" ELSE "agent_opinion"

DropKey(o, k) == [x \in (DOMAIN o) \ {k} |-> o[x]]

WellFormedOutputs(stage) ==
    UNION {{FullOutput(stage, t, PyDict(d)) : d \in ContribDicts(t)} : t \in Submissions}

MalformedOutputs(stage) ==
    LET base == FullOutput(stage, 0, PyDict([a \in {"a1"} |-> XText[1]]))
    IN  {DropKey(base, k) : k \in StageKeys(stage)}
          \cup {FullOutput(stage, 0, PyStr("oops"))}

RawOutputs(stage) == WellFormedOutputs(stage) \cup MalformedOutputs(stage)

\* A dict has one item per key: the agents of an input are distinct.
Inputs(stage) ==
    UNION {{s \in [1..n -> Agents \X RawOutputs(stage)] :
              \A i, j \in 1..n : s[i][1] = s[j][1] => i = j} : n \in 0..MaxEntries}

AgentIds(outs) == {outs[i][1] : i \in 1..Len(outs)}

(***************************************************************************)
(* merge_stage1_question                                                   *)
(***************************************************************************)
\* o[k] for every k of ks, then merged[ck].update(o[ck]): a KeyError for a
\* missing key, and dict.update of a string raises ValueError.
HasKeys(o, ks) == \A k \in ks : k \in DOMAIN o
DictUpdate(d, u) == u @@ d

Stage1AssignKeepsQuestion(m, o) ==
    IF ~HasKeys(o, Stage1Keys) \/ ~IsDict(o["agent_answers"]) THEN Raised
    ELSE [raised |-> FALSE,
          question |-> IF m.question = None THEN o["question"] ELSE m.question,
          answer |-> o["answer"],
          agent_answers |-> DictUpdate(m.agent_answers, o["agent_answers"].items)]

Stage1Assign(m, o) ==
    IF ~HasKeys(o, Stage1Keys) \/ ~IsDict(o["agent_answers"]) THEN Raised
    ELSE [raised |-> FALSE, question |-> o["question"], answer |-> o["answer"],
          agent_answers |-> DictUpdate(m.agent_answers, o["agent_answers"].items)]

Stage1StepNoChecks(m, agent, o) ==
    IF m.raised THEN m ELSE Stage1Assign(m, o)

Stage1StepFirstWins(m, agent, o) ==
    IF m.raised THEN m
    ELSE IF ~HasKeys(o, Stage1Keys) THEN m
    ELSE IF ~IsDict(o["agent_answers"]) THEN m
    ELSE IF m.question # None THEN m
    ELSE Stage1Assign(m, o)

\* One iteration of the loop over outputs.items().
Stage1Step(m, agent, o) ==
    IF m.raised THEN m
    ELSE IF ~HasKeys(o, Stage1Keys) THEN m
    ELSE IF ~IsDict(o["agent_answers"]) THEN m
    ELSE Stage1Assign(m, o)

RECURSIVE Stage1Fold(_, _, _)
Stage1Fold(m, outs, i) ==
    IF i > Len(outs) THEN m
    ELSE Stage1Fold(Stage1Step(m, outs[i][1], outs[i][2]), outs, i + 1)

FillDefaultsOverwrite(contrib, outs, placeholder) ==
    [a \in (DOMAIN contrib) \cup AgentIds(outs) |->
        IF a \in AgentIds(outs) THEN placeholder ELSE contrib[a]]

FillDefaultsValidOnly(contrib, outs, placeholder) ==
    contrib

\* The loop that fills the default for every agent of the input.
FillDefaults(contrib, outs, placeholder) ==
    [a \in (DOMAIN contrib) \cup AgentIds(outs) |->
        IF a \in DOMAIN contrib THEN contrib[a] ELSE placeholder]

merge_stage1_question(outs) ==
    LET m == Stage1Fold([raised |-> FALSE, question |-> None, answer |-> None,
                         agent_answers |-> EmptyDict], outs, 1)
    IN  IF m.raised THEN m
        ELSE [m EXCEPT !.agent_answers = FillDefaults(@, outs, Stage1Placeholder)]

(***************************************************************************)
(* merge_stage2_question                                                   *)
(***************************************************************************)
Stage2Assign(m, o) ==
    IF ~HasKeys(o, Stage2Keys) \/ ~IsDict(o["agent_opinion"]) THEN Raised
    ELSE [raised |-> FALSE, question |-> o["question"], answer |-> o["answer"],
          stage2_prompt |-> o["stage2_prompt"],
          agent_opinion |-> DictUpdate(m.agent_opinion, o["agent_opinion"].items)]

Stage2Step(m, agent, o) ==
    IF m.raised THEN m
    ELSE IF ~(Stage2Keys \subseteq DOMAIN o) THEN m
    ELSE IF ~IsDict(o["agent_opinion"]) THEN m
    ELSE Stage2Assign(m, o)

RECURSIVE Stage2Fold(_, _, _)
Stage2Fold(m, outs, i) ==
    IF i > Len(outs) THEN m
    ELSE Stage2Fold(Stage2Step(m, outs[i][1], outs[i][2]), outs, i + 1)

merge_stage2_question(outs) ==
    LET m == Stage2Fold([raised |-> FALSE, question |-> None, answer |-> None,
                         stage2_prompt |-> None, agent_opinion |-> EmptyDict], outs, 1)
    IN  IF m.raised THEN m
        ELSE [m EXCEPT !.agent_opinion = FillDefaults(@, outs, Stage2Placeholder)]

(***************************************************************************)
(* The merger's callers: a call of either function on the input.  Neither  *)
(* function assigns to `outputs` or into any of its values.                *)
(***************************************************************************)
\* The input after a call whose accumulator is the first valid entry's own
\* contribution dict instead of a fresh one.
AliasedInput(outs, stage, contrib) ==
    LET valid == {i \in 1..Len(outs) :
                    /\ HasKeys(outs[i][2], StageKeys(stage))
                    /\ IsDict(outs[i][2][ContribKey(stage)])}
    IN  IF valid = {} THEN outs
        ELSE LET f == CHOOSE i \in valid : \A j \in valid : i <= j
             IN  [outs EXCEPT ![f] = <<outs[f][1],
                     [outs[f][2] EXCEPT ![ContribKey(stage)] = PyDict(contrib)]>>]

CallMerge1Aliased ==
    /\ mcalls < MaxCalls
    /\ merged' = merge_stage1_question(outputs)
    /\ mfn' = 1
    /\ mcalls' = mcalls + 1
    /\ outputs' = AliasedInput(outputs, 1, merged'.agent_answers)
    /\ UNCHANGED <<serverVars, healthVars, discoveryVars, cacheVars, pollerVars, now, readerVars>>

CallMerge1 ==
    /\ mcalls < MaxCalls
    /\ merged' = merge_stage1_question(outputs)
    /\ mfn' = 1
    /\ mcalls' = mcalls + 1
    /\ UNCHANGED <<serverVars, healthVars, discoveryVars, outputs, cacheVars, pollerVars, now, readerVars>>

CallMerge2 ==
    /\ mcalls < MaxCalls
    /\ merged' = merge_stage2_question(outputs)
    /\ mfn' = 2
    /\ mcalls' = mcalls + 1
    /\ UNCHANGED <<serverVars, healthVars, discoveryVars, outputs, cacheVars, pollerVars, now, readerVars>>

(***************************************************************************)
(* The distributed store as the cache reads it (hivemind_exp.dht_utils).   *)
(* The store is external and changes under the poller: what a read         *)
(* returns is drawn from the environment at every read.  A read returns a  *)
(* value, finds the key absent, or raises; the round/stage key may also    *)
(* hold a value that does not unpack into (round, stage).                  *)
(***************************************************************************)
PyInt(n) == [type |-> "int", int |-> n]
PyTuple(t) == [type |-> "tuple", items |-> t]
Digits == <<"0", "1", "2", "3", "4", "5", "6", "7", "8", "9">>
\* str(v)
Str(v) == IF v.type = "str" THEN v.str ELSE Digits[v.int + 1]

ReadValue(v) == [kind |-> "value", value |-> v]
ReadAbsent == [kind |-> "absent"]
ReadMalformed == [kind |-> "malformed"]
ReadRaises == [kind |-> "raise"]

\* get_round_and_stage(dht): the ways a call on this read can end.
get_round_and_stage(read) ==
    CASE read.kind = "value" ->
            {[exc |-> "none", round |-> read.value[1], stage |-> read.value[2]]}
      [] read.kind = "absent" -> {[exc |-> "ValueError"]}
      [] read.kind = "malformed" -> {[exc |-> "ValueError"], [exc |-> "TypeError"]}
      [] OTHER -> {[exc |-> "RuntimeError"]}

\* get_dht_value(dht, key=..., latest=...): None for an absent key.
get_dht_value(read) ==
    CASE read.kind = "value" -> [exc |-> "none", value |-> read.value]
      [] read.kind = "absent" -> [exc |-> "none", value |-> None]
      [] OTHER -> [exc |-> "RuntimeError"]

\* No key is published for a round and stage that were never observed.
ReadsFor(reads, round) ==
    IF round = -1 THEN {r \in reads : r.kind \in {"absent", "raise"}} ELSE reads

Nodes == {"n1", "n2"}

\* The outputs entries the store may hold: outputs_key(node, round, stage)
\* maps question to (timestamp, output).
PubRecords ==
    { [node |-> "n1", round |-> 1, stage |-> 0, question |-> "q1", ts |-> 5, answer |-> "x"],
      [node |-> "n1", round |-> 1, stage |-> 0, question |-> "q2", ts |-> 9, answer |-> "y"],
      [node |-> "n1", round |-> 5, stage |-> 0, question |-> "q1", ts |-> 5, answer |-> "z"],
      [node |-> "n2", round |-> 25, stage |-> 1, question |-> "q2", ts |-> 7, answer |-> "w"] }
KeyOf(p) == <<p.node, p.round, p.stage>>
NoKey == <<"none", 0, 0>>

\* What the poller's reads are drawn from.
FullEnv ==
    [ rs |-> {ReadValue(<<1, 0>>), ReadValue(<<20, 1>>), ReadValue(<<25, 1>>),
              ReadAbsent, ReadMalformed, ReadRaises},
      lb |-> {ReadValue(<<PyTuple(<<PyStr("n1"), 3>>), PyTuple(<<PyInt(7), 1>>)>>),
              ReadValue(<<PyTuple(<<PyStr("n1"), 3>>), PyTuple(<<PyStr("n1"), 3>>)>>),
              ReadValue(<<PyInt(3)>>),
              ReadValue(<<>>), ReadAbsent, ReadRaises},
      rewards |-> {ReadValue(<<"n1">>), ReadValue(<<"n2", "n1">>), ReadValue(<<>>),
                   ReadAbsent, ReadRaises},
      pubs |-> {P \in SUBSET PubRecords : Cardinality(P) <= MaxPub},
      bad |-> {NoKey, <<"n1", 5, 0>>, <<"n2", 25, 1>>},
      observed |-> FALSE ]

\* A store whose every kind of read failure happens, with few values.
ClockEnv ==
    [ rs |-> {ReadValue(<<20, 1>>), ReadAbsent, ReadMalformed, ReadRaises},
      lb |-> {ReadValue(<<PyTuple(<<PyStr("n1"), 3>>)>>), ReadAbsent, ReadRaises},
      rewards |-> {ReadValue(<<"n1">>), ReadAbsent, ReadRaises},
      pubs |-> {P \in SUBSET PubRecords :
                  Cardinality(P) <= MaxPub /\ \A p \in P : p.node = "n1" /\ p.question = "q1"},
      bad |-> {NoKey, <<"n1", 5, 0>>},
      observed |-> FALSE ]

\* A store with little in it, for the runs that follow a reader as well.
SmallEnv ==
    [ rs |-> {ReadValue(<<1, 0>>), ReadAbsent},
      lb |-> {ReadValue(<<PyTuple(<<PyStr("n1"), 3>>)>>), ReadAbsent, ReadRaises},
      rewards |-> {ReadValue(<<"n1">>), ReadAbsent},
      pubs |-> {P \in SUBSET PubRecords : Cardinality(P) <= 1 /\ \A p \in P : p.question = "q1"},
      bad |-> {NoKey},
      observed |-> TRUE ]

(***************************************************************************)
(* Cache (web/api/server_cache.py)                                         *)
(***************************************************************************)
LOOKBACK_ROUNDS == 20
STAGE_GOSSIP_LIMIT == 20

STALE_MINUTES == 5

NoObs == [step |-> "none", prev |-> "none"]

\* The exception that left the three steps of poll_dht's try block, given
\* what the last step of the cycle observed: _get_round_and_stage lets
\* through what is no ValueError, and the final sort of _get_gossip is
\* outside its try.
EscapedException(o) ==
    IF o.step = "rs" /\ o.exc \notin {"none", "ValueError"} THEN o.exc
    ELSE IF o.step = "gossip" /\ o.sortexc THEN "TypeError"
    ELSE "none"

\* populate_cache: the next iteration of its loop calls poll_dht.
PollStart ==
    /\ pc = "sleep"
    /\ cycle < MaxCycles
    /\ pc' = "rs"
    /\ cycle' = cycle + 1
    /\ obs' = [step |-> "none", prev |-> EscapedException(obs)]
    /\ UNCHANGED <<serverVars, healthVars, discoveryVars, mergerVars, cacheVars, now, readerVars>>

\* populate_cache: the iterations after the first MaxCycles, which are not
\* counted.
PollAgain ==
    /\ pc = "sleep"
    /\ cycle = MaxCycles
    /\ pc' = "rs"
    /\ obs' = [step |-> "none", prev |-> EscapedException(obs)]
    /\ UNCHANGED <<serverVars, healthVars, discoveryVars, mergerVars, cacheVars, cycle, now, readerVars>>

GetRoundAndStageResets(env) ==
    /\ pc = "rs"
    /\ \E read \in env.rs : \E out \in get_round_and_stage(read) :
          /\ obs' = [step |-> "rs", read |-> read.kind, exc |-> out.exc]
          /\ IF out.exc = "none"
             THEN /\ current_round' = out.round
                  /\ current_stage' = out.stage
                  /\ pc' = "lb"
             ELSE /\ current_round' = -1
                  /\ current_stage' = -1
                  /\ pc' = IF out.exc = "ValueError" THEN "lb" ELSE "stamp"
    /\ UNCHANGED <<serverVars, healthVars, discoveryVars, mergerVars, leaderboard, gossips, last_polled, cycle, now, readerVars>>

\* Cache._get_round_and_stage.  A ValueError is caught here; any other
\* exception leaves poll_dht's try block, past the two other steps.
GetRoundAndStage(env) ==
    /\ pc = "rs"
    /\ \E read \in env.rs : \E out \in get_round_and_stage(read) :
          /\ obs' = [step |-> "rs", read |-> read.kind, exc |-> out.exc]
          /\ IF out.exc = "none"
             THEN /\ current_round' = out.round
                  /\ current_stage' = out.stage
                  /\ pc' = "lb"
             ELSE /\ UNCHANGED <<current_round, current_stage>>
                  /\ pc' = IF out.exc = "ValueError" THEN "lb" ELSE "stamp"
    /\ UNCHANGED <<serverVars, healthVars, discoveryVars, mergerVars, leaderboard, gossips, last_polled, cycle, now, readerVars>>

LeaderboardEntriesDeduplicated(raw) ==
    LET items == IF raw = None THEN <<>> ELSE raw
        firsts == SelectSeq([i \in 1..Len(items) |-> <<i, items[i]>>],
                            LAMBDA x : \A j \in 1..(x[1] - 1) : items[j] # x[2])
    IN  IF \E i \in 1..Len(items) : items[i].type # "tuple"
        THEN [exc |-> "TypeError"]
        ELSE [exc |-> "none",
              out |-> [i \in 1..Len(firsts) |->
                         [id |-> Str(firsts[i][2].items[1]), score |-> firsts[i][2].items[2],
                          values |-> <<>>]]]

\* The list comprehension of _get_leaderboard over (raw or []): t[0] of an
\* element that is no tuple raises.
LeaderboardEntries(raw) ==
    LET items == IF raw = None THEN <<>> ELSE raw
    IN  IF \E i \in 1..Len(items) : items[i].type # "tuple"
        THEN [exc |-> "TypeError"]
        ELSE [exc |-> "none",
              out |-> [i \in 1..Len(items) |->
                         [id |-> Str(items[i].items[1]), score |-> items[i].items[2],
                          values |-> <<>>]]]

GetLeaderboardClearsOnError(env) ==
    /\ pc = "lb"
    /\ \E read \in ReadsFor(env.lb, current_round) :
          LET got == get_dht_value(read)
              res == IF got.exc # "none" THEN got ELSE LeaderboardEntries(got.value)
          IN  /\ obs' = [step |-> "lb", read |-> read.kind, exc |-> res.exc,
                         raw |-> got]
              /\ leaderboard' = [leaders |-> IF res.exc = "none" THEN res.out ELSE <<>>]
    /\ pc' = "gossip"
    /\ UNCHANGED <<serverVars, healthVars, discoveryVars, mergerVars, current_round, current_stage, gossips, last_polled, cycle,
                   now, readerVars>>

\* Cache._get_leaderboard
GetLeaderboard(env) ==
    /\ pc = "lb"
    /\ \E read \in ReadsFor(env.lb, current_round) :
          LET got == get_dht_value(read)
              res == IF got.exc # "none" THEN got ELSE LeaderboardEntries(got.value)
          IN  /\ obs' = [step |-> "lb", read |-> read.kind, exc |-> res.exc,
                         raw |-> got]
              /\ IF res.exc = "none"
                 THEN leaderboard' = [leaders |-> res.out]
                 ELSE UNCHANGED leaderboard
    /\ pc' = "gossip"
    /\ UNCHANGED <<serverVars, healthVars, discoveryVars, mergerVars, current_round, current_stage, gossips, last_polled, cycle,
                   now, readerVars>>

\* itertools.product(range(start_round, round + 1), range(0, stage + 1), nodes),
\* as the sequence of its (node, round, stage) in iteration order.
StartRoundNoFloor(round) == round - LOOKBACK_ROUNDS
StartRound(round) == IF round < LOOKBACK_ROUNDS THEN 0 ELSE round - LOOKBACK_ROUNDS
WindowKeys(round, stage, nodes) ==
    {<<nodes[i], r, s>> : i \in 1..Len(nodes), r \in StartRound(round)..round, s \in 0..stage}
\* The place of a key of the window in the product's iteration order: the
\* round varies slowest and the node fastest.
KeyPos(key, round, stage, nodes) ==
    LET idx == CHOOSE i \in 1..Len(nodes) : nodes[i] = key[1]
    IN  (key[2] - StartRound(round)) * (stage + 1) * Len(nodes) + key[3] * Len(nodes) + idx
InWindow(key, round, stage, nodes) ==
    /\ \E i \in 1..Len(nodes) : nodes[i] = key[1]
    /\ StartRound(round) <= key[2] /\ key[2] <= round
    /\ 0 <= key[3] /\ key[3] <= stage

\* sorted(list(outputs.items()), key=lambda t: t[1][0])[-STAGE_GOSSIP_LIMIT:]
\* of the entries under one key, oldest first.
RECURSIVE ByTimestamp(_)
ByTimestamp(P) ==
    IF P = {} THEN <<>>
    ELSE LET p == CHOOSE x \in P : \A y \in P : x.ts <= y.ts
         IN  <<p>> \o ByTimestamp(P \ {p})
LastN(s, n) == IF Len(s) <= n THEN s ELSE SubSeq(s, Len(s) - n + 1, Len(s))

\* hashlib.md5(f"{node}_{round}_{stage}_{question}"): one id per text hashed.
Md5(node, round, stage, question) == <<"md5", node, "_", round, "_", stage, "_", question>>
GossipOf(p) ==
    <<p.ts, [id |-> Md5(p.node, p.round, p.stage, p.question),
             message |-> <<p.question, "...Answer: ", p.answer>>,
             node |-> p.node]>>

\* The loop of _get_gossip over the window.  The first key whose read
\* raises ends it: the keys up to and including that one were read, and
\* round_gossip holds what the keys before it gave, in iteration order.
RECURSIVE GossipOfKeys(_, _, _, _, _)
GossipOfKeys(hits, pub, round, stage, nodes) ==
    IF hits = {} THEN <<>>
    ELSE LET k == CHOOSE x \in hits :
                     \A y \in hits : KeyPos(x, round, stage, nodes) <= KeyPos(y, round, stage, nodes)
             found == ByTimestamp({p \in pub : KeyOf(p) = k})
             kept == LastN(found, STAGE_GOSSIP_LIMIT)
         IN  [j \in 1..Len(kept) |-> GossipOf(kept[j])]
                \o GossipOfKeys(hits \ {k}, pub, round, stage, nodes)

CollectGossip(round, stage, nodes, pub, bad) ==
    LET fails == InWindow(bad, round, stage, nodes)
        hits == {k \in {KeyOf(p) : p \in pub} :
                    /\ InWindow(k, round, stage, nodes)
                    /\ fails => KeyPos(k, round, stage, nodes) < KeyPos(bad, round, stage, nodes)}
    IN  [msgs |-> GossipOfKeys(hits, pub, round, stage, nodes),
         keys |-> {k \in WindowKeys(round, stage, nodes) :
                     fails => KeyPos(k, round, stage, nodes) <= KeyPos(bad, round, stage, nodes)},
         nodes |-> nodes,
         exc |-> IF fails THEN "RuntimeError" ELSE "none"]

\* The try block of _get_gossip.
GossipTry(round, stage, read, pub, bad) ==
    LET got == get_dht_value(read)
        empty == [msgs |-> <<>>, keys |-> {}, nodes |-> <<>>]
    IN  IF got.exc # "none" THEN empty @@ [exc |-> got.exc]
        ELSE IF got.value = None \/ got.value = <<>> THEN empty @@ [exc |-> "ValueError"]
        ELSE CollectGossip(round, stage, got.value, pub, bad)

\* sorted(round_gossip, reverse=True) compares (ts, msg) tuples: on equal
\* timestamps it compares the msg dicts, which raises TypeError.
SortRaises(msgs) ==
    \E i, j \in 1..Len(msgs) : i # j /\ msgs[i][1] = msgs[j][1] /\ msgs[i][2] # msgs[j][2]

RECURSIVE SortedDescending(_)
SortedDescending(msgs) ==
    IF msgs = <<>> THEN <<>>
    ELSE LET top == CHOOSE i \in 1..Len(msgs) :
                       \A j \in 1..Len(msgs) :
                          msgs[j][1] < msgs[i][1] \/ (msgs[j][1] = msgs[i][1] /\ i <= j)
         IN  <<msgs[top]>> \o
             SortedDescending([k \in 1..(Len(msgs) - 1) |->
                                  IF k < top THEN msgs[k] ELSE msgs[k + 1]])

GossipFeed(msgs) ==
    LET sorted == SortedDescending(msgs)
    IN  [i \in 1..Len(sorted) |-> sorted[i][2]]

\* Cache._get_gossip
GetGossip(env) ==
    /\ pc = "gossip"
    /\ \E read \in ReadsFor(env.rewards, current_round) :
       \E pub \in IF read.kind = "value" /\ read.value # <<>> THEN env.pubs ELSE {{}} :
       \E bad \in IF read.kind = "value" /\ read.value # <<>> THEN env.bad ELSE {NoKey} :
       \E res \in {GossipTry(current_round, current_stage, read, pub, bad)} :
       \E raises \in {SortRaises(res.msgs)} :
          /\ obs' = [step |-> "gossip", read |-> read.kind, exc |-> res.exc,
                     nodes |-> res.nodes, keys |-> res.keys, msgs |-> res.msgs,
                     sortexc |-> raises]
          /\ IF raises
             THEN UNCHANGED gossips
             ELSE gossips' = [messages |-> GossipFeed(res.msgs),
                              currentRound |-> current_round,
                              currentStage |-> current_stage]
    /\ pc' = "stamp"
    /\ UNCHANGED <<serverVars, healthVars, discoveryVars, mergerVars, current_round, current_stage, leaderboard, last_polled, cycle,
                   now, readerVars>>

StampOnlyOnSuccess(env) ==
    /\ pc = "stamp"
    /\ last_polled' = IF EscapedException(obs) = "none" /\ obs.exc = "none"
                      THEN now ELSE last_polled
    /\ pc' = "sleep"
    /\ snapshots' = IF env.observed THEN snapshots \cup {<<leaderboard, gossips>>}
                    ELSE snapshots
    /\ UNCHANGED <<serverVars, healthVars, discoveryVars, mergerVars, current_round, current_stage,
                   leaderboard, gossips, cycle, obs, now, rdLB, rdG>>

StampEndsLoopOnError(env) ==
    /\ pc = "stamp"
    /\ IF EscapedException(obs) = "none"
       THEN last_polled' = now /\ pc' = "sleep"
       ELSE UNCHANGED last_polled /\ pc' = "done"
    /\ snapshots' = IF env.observed THEN snapshots \cup {<<leaderboard, gossips>>}
                    ELSE snapshots
    /\ UNCHANGED <<serverVars, healthVars, discoveryVars, mergerVars, current_round, current_stage,
                   leaderboard, gossips, cycle, obs, now, rdLB, rdG>>

\* The end of poll_dht: whatever left the try block is caught, and
\* last_polled = time.time().
Stamp(env) ==
    /\ pc = "stamp"
    /\ last_polled' = now
    /\ pc' = "sleep"
    /\ snapshots' = IF env.observed THEN snapshots \cup {<<leaderboard, gossips>>}
                    ELSE snapshots
    /\ UNCHANGED <<serverVars, healthVars, discoveryVars, mergerVars, current_round, current_stage, leaderboard, gossips, cycle,
                   obs, now, rdLB, rdG>>

\* time passes
Tick ==
    /\ now < MaxTime
    /\ now' = now + 1
    /\ UNCHANGED <<serverVars, healthVars, discoveryVars, mergerVars, cacheVars, pollerVars, readerVars>>

get_leaderboard == leaderboard

get_gossips_of_leaderboard == leaderboard

get_gossips == gossips

NotRead == [done |-> FALSE]

\* Cache.get_last_polled returns self.get_last_polled: the bound method.
BoundMethod(name) == [type |-> "method", name |-> name]
get_last_polled == BoundMethod("get_last_polled")

\* datetime.now() - lpt is defined for a datetime lpt only.
DatetimeSub(t, lpt) ==
    IF lpt.type = "datetime" THEN [exc |-> "none", value |-> t - lpt.value]
    ELSE [exc |-> "TypeError"]

NoHealth == [status |-> 0]
NoRoster == [answered |-> FALSE]

\* get_health of the API; an exception it raises is answered by
\* internal_server_error_handler with status 500.
HealthResponse(lpt, t) ==
    IF lpt.type = "NoneType" THEN [status |-> 500, detail |-> "dht never polled"]
    ELSE LET diff == DatetimeSub(t, lpt)
         IN  IF diff.exc # "none"
             THEN [status |-> 500, detail |-> "Internal Server Error"]
             ELSE IF diff.value > STALE_MINUTES
             THEN [status |-> 500, detail |-> "dht last poll exceeded 5 minutes"]
             ELSE [status |-> 200, detail |-> "OK"]

GetHealth ==
    /\ health' = HealthResponse(get_last_polled, now)
                    @@ [at |-> now, last |-> last_polled]
    /\ UNCHANGED <<serverVars, discoveryVars, mergerVars, cacheVars, pollerVars, now, readerVars>>

\* A request handler calls Cache.get_leaderboard().
ReadLeaderboard ==
    /\ ~rdLB.done
    /\ rdLB' = [done |-> TRUE, value |-> get_leaderboard, cycle |-> cycle,
                quiet |-> (pc = "sleep")]
    /\ UNCHANGED <<serverVars, healthVars, discoveryVars, mergerVars, cacheVars, pollerVars, now, rdG, snapshots>>

\* A request handler calls Cache.get_gossips().
ReadGossips ==
    /\ ~rdG.done
    /\ rdG' = [done |-> TRUE, value |-> get_gossips, cycle |-> cycle,
               quiet |-> (pc = "sleep")]
    /\ UNCHANGED <<serverVars, healthVars, discoveryVars, mergerVars, cacheVars, pollerVars, now, rdLB, snapshots>>

(***************************************************************************)
(* PeerDiscovery (hivemind_exp/peer_discovery/discovery.py).  A text is    *)
(* the sequence of its characters; a peer is a str, or a Multiaddr object  *)
(* as dht.get_visible_maddrs() returns them.                               *)
(***************************************************************************)
LF == "\n"
Multiaddr(text) == [type |-> "Multiaddr", text |-> text]
\* str(p)
StrOfPeer(p) == IF p.type = "str" THEN p.str ELSE p.text

AddrA == <<"/", "a">>
AddrB == <<"/", "b">>
NotAnAddr == <<"x">>

\* The cache file: missing, present but unreadable, or holding a text.
Missing == [exists |-> FALSE]
Unreadable == [exists |-> TRUE, readable |-> FALSE]
FileOf(text) == [exists |-> TRUE, readable |-> TRUE, text |-> text]

\* The cache files a first construction may find.
InitialFiles ==
    { Missing, Unreadable,
      FileOf(<<" ">> \o AddrA \o <<" ", LF, LF>> \o NotAnAddr \o <<LF>>),
      FileOf(AddrB) }

\* str.splitlines()
RECURSIVE SplitLines(_)
SplitLines(text) ==
    IF text = <<>> THEN <<>>
    ELSE IF \E i \in 1..Len(text) : text[i] = LF
    THEN LET i == CHOOSE k \in 1..Len(text) :
                     text[k] = LF /\ \A j \in 1..(k - 1) : text[j] # LF
         IN  <<SubSeq(text, 1, i - 1)>> \o SplitLines(SubSeq(text, i + 1, Len(text)))
    ELSE <<text>>

\* str.strip()
RECURSIVE Strip(_)
Strip(text) ==
    IF text = <<>> THEN <<>>
    ELSE IF Head(text) = " " THEN Strip(Tail(text))
    ELSE IF text[Len(text)] = " " THEN Strip(SubSeq(text, 1, Len(text) - 1))
    ELSE text

\* PeerDiscovery._load_cached_peers, on the empty set of __init__.
LoadCachedPeers(file) ==
    IF ~file.exists THEN {}
    ELSE IF ~file.readable THEN {}
    ELSE LET lines == SplitLines(file.text)
         IN  {PyStr(Strip(lines[i])) : i \in {j \in 1..Len(lines) : Strip(lines[j]) # <<>>}}

\* The orders in which a set may be iterated.
Orderings(S) ==
    {f \in [1..Cardinality(S) -> S] : \A i, j \in 1..Cardinality(S) : i # j => f[i] # f[j]}

RECURSIVE WriteLines(_)
WriteLines(peers) ==
    IF peers = <<>> THEN <<>>
    ELSE StrOfPeer(Head(peers)) \o <<LF>> \o WriteLines(Tail(peers))

WriteLinesUnterminated(peers) ==
    IF peers = <<>> THEN <<>>
    ELSE StrOfPeer(Head(peers)) \o WriteLines(Tail(peers))

\* The text _save_cached_peers writes for the peers in one iteration order.
SavedText(peers) == WriteLines(peers)

NoSave == [written |-> FALSE]

\* No caller is inside the list comprehension of get_peers.
NotIterating == [on |-> FALSE]

\* PeerDiscovery._save_cached_peers: the files it may leave, and whether it
\* wrote the set.  When makedirs or open fails the file is as it was; when
\* a write fails the file was truncated by open.
SaveCachedPeers(peers, file) ==
    {[file |-> FileOf(SavedText(order)), failed |-> FALSE] : order \in Orderings(peers)}
        \cup {[file |-> file, failed |-> TRUE], [file |-> FileOf(<<>>), failed |-> TRUE]}

\* What one run of _discover_dht_peers may add: the visible multiaddrs, and
\* the str() of the addresses of active and routing-table peers.  A call
\* that raises adds what came before it.
DhtPeers == {Multiaddr(AddrA), PyStr(AddrB)}

\* The address a local-network announcement gives: f"/ip4/{ip}/tcp/{port}".
LocalPeers == {PyStr(AddrB)}

AcceptsEveryPeer(p) == TRUE

\* p and str(p).startswith('/')
IsValidPeer(p) ==
    /\ (p.type = "str" => p.str # <<>>)
    /\ StrOfPeer(p) # <<>>
    /\ Head(StrOfPeer(p)) = "/"

ValidPeers(peers) == {p \in peers : IsValidPeer(p)}

\* PeerDiscovery.__init__: a discovery object is constructed on the cache
\* file as it is now (a restart of the process).
Construct ==
    /\ enable_local_discovery' \in BOOLEAN
    /\ discovered_peers' = LoadCachedPeers(cache_file)
    /\ zeroconf' = None
    /\ browser' = None
    /\ active' = FALSE
    /\ dop' = [op |-> "init", file |-> cache_file]
    /\ UNCHANGED <<cache_file, saved, iter>>
    /\ UNCHANGED <<serverVars, healthVars, mergerVars, cacheVars, pollerVars, now, readerVars>>

\* PeerDiscovery._start_local_discovery: the handles it leaves.  Any
\* exception in its try ends in _stop_local_discovery.
StartLocalDiscovery(ok) ==
    IF ok THEN [zeroconf |-> "Zeroconf", browser |-> "ServiceBrowser"]
    ELSE [zeroconf |-> None, browser |-> None]

StartUnguarded ==
    /\ active' = TRUE
    /\ \E ok \in BOOLEAN, found \in SUBSET DhtPeers :
          LET h == IF enable_local_discovery THEN StartLocalDiscovery(ok)
                   ELSE [zeroconf |-> zeroconf, browser |-> browser]
          IN  /\ zeroconf' = h.zeroconf
              /\ browser' = h.browser
              /\ discovered_peers' = discovered_peers \cup found
              /\ dop' = [op |-> "start", noop |-> FALSE, ran_discovery |-> TRUE,
                         wrote_file |-> FALSE, found |-> found,
                         local_failed |-> (enable_local_discovery /\ ~ok)]
    /\ UNCHANGED <<enable_local_discovery, cache_file, saved, iter>>
    /\ UNCHANGED <<serverVars, healthVars, mergerVars, cacheVars, pollerVars, now, readerVars>>

StartAbortsWhenLocalFails ==
    /\ IF active
       THEN /\ dop' = [op |-> "start", noop |-> TRUE, ran_discovery |-> FALSE,
                       wrote_file |-> FALSE, found |-> {}, local_failed |-> FALSE]
            /\ UNCHANGED <<active, zeroconf, browser, discovered_peers>>
       ELSE /\ active' = TRUE
            /\ \E ok \in BOOLEAN, found \in SUBSET DhtPeers :
                  LET h == IF enable_local_discovery THEN StartLocalDiscovery(ok)
                           ELSE [zeroconf |-> zeroconf, browser |-> browser]
                  IN  /\ zeroconf' = h.zeroconf
                      /\ browser' = h.browser
                      /\ discovered_peers' = IF enable_local_discovery /\ ~ok THEN discovered_peers
                                           ELSE discovered_peers \cup found
                      /\ dop' = [op |-> "start", noop |-> FALSE, ran_discovery |-> TRUE,
                                 wrote_file |-> FALSE, found |-> found,
                                 local_failed |-> (enable_local_discovery /\ ~ok)]
    /\ UNCHANGED <<enable_local_discovery, cache_file, saved, iter>>
    /\ UNCHANGED <<serverVars, healthVars, mergerVars, cacheVars, pollerVars, now, readerVars>>

\* PeerDiscovery.start
Start ==
    /\ IF active
       THEN /\ dop' = [op |-> "start", noop |-> TRUE, ran_discovery |-> FALSE,
                       wrote_file |-> FALSE, found |-> {}, local_failed |-> FALSE]
            /\ UNCHANGED <<active, zeroconf, browser, discovered_peers>>
       ELSE /\ active' = TRUE
            /\ \E ok \in BOOLEAN, found \in SUBSET DhtPeers :
                  LET h == IF enable_local_discovery THEN StartLocalDiscovery(ok)
                           ELSE [zeroconf |-> zeroconf, browser |-> browser]
                  IN  /\ zeroconf' = h.zeroconf
                      /\ browser' = h.browser
                      /\ discovered_peers' = discovered_peers \cup found
                      /\ dop' = [op |-> "start", noop |-> FALSE, ran_discovery |-> TRUE,
                                 wrote_file |-> FALSE, found |-> found,
                                 local_failed |-> (enable_local_discovery /\ ~ok)]
    /\ UNCHANGED <<enable_local_discovery, cache_file, saved, iter>>
    /\ UNCHANGED <<serverVars, healthVars, mergerVars, cacheVars, pollerVars, now, readerVars>>

StopLocalDiscoveryBlockedByUnregister(zc, br, unregister_fails) ==
    [browser |-> None, zeroconf |-> IF unregister_fails THEN zc ELSE None]

\* PeerDiscovery._stop_local_discovery: the browser is cancelled, a failure
\* to unregister is passed over, and the handle is closed.
StopLocalDiscovery(zc, br, unregister_fails) ==
    [browser |-> None, zeroconf |-> None]

\* PeerDiscovery.stop
Stop ==
    /\ IF ~active
       THEN /\ dop' = [op |-> "stop", noop |-> TRUE, ran_discovery |-> FALSE,
                       wrote_file |-> FALSE]
            /\ UNCHANGED <<active, zeroconf, browser, cache_file, saved>>
       ELSE /\ active' = FALSE
            /\ \E unregister_fails \in BOOLEAN :
               \E save \in SaveCachedPeers(discovered_peers, cache_file) :
                  LET local == enable_local_discovery /\ zeroconf # None
                      h == IF local THEN StopLocalDiscovery(zeroconf, browser, unregister_fails)
                           ELSE [zeroconf |-> zeroconf, browser |-> browser]
                  IN  /\ zeroconf' = h.zeroconf
                      /\ browser' = h.browser
                      /\ cache_file' = save.file
                      /\ saved' = IF ~save.failed THEN [written |-> TRUE, peers |-> discovered_peers]
                                  ELSE IF save.file = cache_file THEN saved
                                  ELSE NoSave
                      /\ dop' = [op |-> "stop", noop |-> FALSE, ran_discovery |-> FALSE,
                                 wrote_file |-> ~save.failed,
                                 had_handles |-> local,
                                 unregister_failed |-> (local /\ unregister_fails),
                                 save_failed |-> save.failed, raised |-> FALSE]
    /\ UNCHANGED <<enable_local_discovery, discovered_peers, iter>>
    /\ UNCHANGED <<serverVars, healthVars, mergerVars, cacheVars, pollerVars, now, readerVars>>

LocalPeerFoundDropsUnconnected ==
    /\ browser # None
    /\ \E p \in LocalPeers, connect_fails \in BOOLEAN :
          /\ discovered_peers' = IF connect_fails THEN discovered_peers \ {p}
                                 ELSE discovered_peers \cup {p}
          /\ dop' = [op |-> "mdns", peer |-> p, connect_failed |-> connect_fails]
    /\ UNCHANGED <<active, zeroconf, browser, enable_local_discovery, cache_file, saved, iter>>
    /\ UNCHANGED <<serverVars, healthVars, mergerVars, cacheVars, pollerVars, now, readerVars>>

\* on_service_state_change of the running browser: a peer announced on the
\* local network is added, and stays when dht.add_initial_peers fails.
LocalPeerFound ==
    /\ browser # None
    /\ \E p \in LocalPeers, connect_fails \in BOOLEAN :
          /\ discovered_peers' = discovered_peers \cup {p}
          /\ dop' = [op |-> "mdns", peer |-> p, connect_failed |-> connect_fails]
    /\ UNCHANGED <<active, zeroconf, browser, enable_local_discovery, cache_file, saved, iter>>
    /\ UNCHANGED <<serverVars, healthVars, mergerVars, cacheVars, pollerVars, now, readerVars>>

\* The lists get_peers may return on a discovered set: its valid entries,
\* in an iteration order of the set.
GetPeersList(peers) == Orderings(ValidPeers(peers))

\* PeerDiscovery.get_peers
GetPeers ==
    /\ \E found \in SUBSET DhtPeers :
       \E list \in GetPeersList(discovered_peers \cup found) :
          /\ discovered_peers' = discovered_peers \cup found
          /\ dop' = [op |-> "get_peers", found |-> found, result |-> list]
    /\ UNCHANGED <<active, zeroconf, browser, enable_local_discovery, cache_file, saved, iter>>
    /\ UNCHANGED <<serverVars, healthVars, mergerVars, cacheVars, pollerVars, now, readerVars>>

random_choices(peers, count) == [1..count -> {peers[i] : i \in 1..Len(peers)}]

\* random.sample(peers, count): count entries at different positions.
random_sample(peers, count) ==
    {[i \in 1..count |-> peers[f[i]]] :
        f \in {g \in [1..count -> 1..Len(peers)] :
                 \A i, j \in 1..count : i # j => g[i] # g[j]}}

\* PeerDiscovery.get_bootstrap_peers
GetBootstrapPeers(count) ==
    /\ \E found \in SUBSET DhtPeers :
       \E peers \in GetPeersList(discovered_peers \cup found) :
       \E result \in IF Len(peers) <= count THEN {peers} ELSE random_sample(peers, count) :
          /\ discovered_peers' = discovered_peers \cup found
          /\ dop' = [op |-> "get_bootstrap_peers", count |-> count,
                     peers |-> peers, result |-> result]
    /\ UNCHANGED <<active, zeroconf, browser, enable_local_discovery, cache_file, saved, iter>>
    /\ UNCHANGED <<serverVars, healthVars, mergerVars, cacheVars, pollerVars, now, readerVars>>

(***************************************************************************)
(* The peers endpoint of the server.                                       *)
(***************************************************************************)
\* The lists dht.get_visible_maddrs() may return to the server.
VisibleMaddrs == {<<>>, <<Multiaddr(AddrA)>>, <<Multiaddr(AddrA), Multiaddr(AddrB)>>}

\* _is_peer_connected: multiaddr in visible_maddrs
is_peer_connected(multiaddr, visible_maddrs) ==
    \E i \in 1..Len(visible_maddrs) : visible_maddrs[i] = multiaddr

\* The entries made of the list the discovery object returned.
DiscoveryEntries(discovered, visible_maddrs) ==
    [i \in 1..Len(discovered) |->
        [multiaddr |-> discovered[i], source |-> "discovery",
         connected |-> is_peer_connected(discovered[i], visible_maddrs)]]

\* The loop over the visible multiaddrs: one is appended when no entry of
\* the list so far has it.
RECURSIVE AddConnected(_, _)
AddConnected(peers, visible_maddrs) ==
    IF visible_maddrs = <<>> THEN peers
    ELSE LET maddr == Head(visible_maddrs)
         IN  AddConnected(
                IF \E i \in 1..Len(peers) : peers[i].multiaddr = maddr
                THEN peers
                ELSE Append(peers, [multiaddr |-> maddr, source |-> "connected",
                                    connected |-> TRUE]),
                Tail(visible_maddrs))

\* "Add myself": the first visible multiaddr is appended when there is one.
AddSelf(peers, visible_maddrs) ==
    IF visible_maddrs # <<>>
    THEN Append(peers, [multiaddr |-> visible_maddrs[1], source |-> "self",
                        connected |-> TRUE])
    ELSE peers

\* The response of the endpoint.
PeersResponse(peers) ==
    [answered |-> TRUE, peers |-> peers, discovery_active |-> TRUE,
     total_count |-> Len(peers),
     connected_count |-> Cardinality({i \in 1..Len(peers) : peers[i].connected})]

\* server.get_peers, with a discovery object in place: the discovery object
\* is asked for its peers, the visible multiaddrs are added unless reading
\* them raised, and the node's own address is appended.
get_peers ==
    /\ \E found \in SUBSET DhtPeers, visible_maddrs \in VisibleMaddrs,
          connected_raises \in BOOLEAN :
       \E discovered \in GetPeersList(discovered_peers \cup found) :
          LET fromDiscovery == DiscoveryEntries(discovered, visible_maddrs)
              withConnected == IF connected_raises THEN fromDiscovery
                               ELSE AddConnected(fromDiscovery, visible_maddrs)
          IN  /\ roster' = PeersResponse(AddSelf(withConnected, visible_maddrs))
              /\ discovered_peers' = discovered_peers \cup found
              /\ dop' = [op |-> "get_peers", found |-> found, result |-> discovered]
    /\ UNCHANGED <<active, zeroconf, browser, enable_local_discovery, cache_file, saved, iter>>
    /\ UNCHANGED <<lock, writing, reading>>
    /\ UNCHANGED <<healthVars, mergerVars, cacheVars, pollerVars, now, readerVars>>

(***************************************************************************)
(* The lock of the cache: the poller's writes and the readers' copies as   *)
(* steps that begin and end.                                               *)
(***************************************************************************)
NextStep(p) ==
    CASE p = "rs" -> "lb"
      [] p = "lb" -> "gossip"
      [] p = "gossip" -> "stamp"
      [] p = "stamp" -> "sleep"

\* The values a step may have ready when it reaches its `with self.lock`.
LockedValues(p) ==
    CASE p = "rs" -> {<<1, 0>>}
      [] p = "lb" -> {[leaders |-> <<>>],
                      [leaders |-> LeaderboardEntries(<<PyTuple(<<PyStr("n1"), 3>>)>>).out]}
      [] p = "gossip" -> {[messages |-> <<>>, currentRound |-> current_round,
                           currentStage |-> current_stage]}
      [] p = "stamp" -> {now}

\* `with self.lock:` is entered by the step the poller is at.
LockAcquire ==
    /\ pc \in {"rs", "lb", "gossip", "stamp"}
    /\ writing = "none"
    /\ lock = "free"
    /\ lock' = "poller"
    /\ writing' = pc
    /\ UNCHANGED <<roster, reading>>
    /\ UNCHANGED <<healthVars, discoveryVars, mergerVars, cacheVars, pollerVars, now, readerVars>>

\* The assignment inside the with block, and the lock released on leaving it.
LockedWrite ==
    /\ writing # "none"
    /\ \E v \in LockedValues(writing) :
          /\ current_round' = IF writing = "rs" THEN v[1] ELSE current_round
          /\ current_stage' = IF writing = "rs" THEN v[2] ELSE current_stage
          /\ leaderboard' = IF writing = "lb" THEN v ELSE leaderboard
          /\ gossips' = IF writing = "gossip" THEN v ELSE gossips
          /\ last_polled' = IF writing = "stamp" THEN v ELSE last_polled
    /\ lock' = "free"
    /\ writing' = "none"
    /\ pc' = NextStep(pc)
    /\ UNCHANGED <<roster, reading, cycle, obs>>
    /\ UNCHANGED <<healthVars, discoveryVars, mergerVars, now, readerVars>>

\* A step whose read of the store failed never reaches its with block.
StepFails ==
    /\ pc \in {"rs", "lb"}
    /\ writing = "none"
    /\ pc' = NextStep(pc)
    /\ UNCHANGED <<cycle, obs>>
    /\ UNCHANGED <<serverVars, healthVars, discoveryVars, mergerVars, cacheVars, now, readerVars>>

\* A request handler enters get_leaderboard, get_gossips or get_last_polled:
\* none of them acquires the lock.
ReadBegin(op) ==
    /\ reading = "none"
    /\ reading' = op
    /\ UNCHANGED <<roster, lock, writing>>
    /\ UNCHANGED <<healthVars, discoveryVars, mergerVars, cacheVars, pollerVars, now, readerVars>>

\* The read returns what it copied.
ReadEnd ==
    /\ reading # "none"
    /\ reading' = "none"
    /\ rdLB' = IF reading = "get_leaderboard"
               THEN [done |-> TRUE, value |-> get_leaderboard, cycle |-> cycle,
                     quiet |-> (pc = "sleep")]
               ELSE rdLB
    /\ rdG' = IF reading = "get_gossips"
              THEN [done |-> TRUE, value |-> get_gossips, cycle |-> cycle,
                    quiet |-> (pc = "sleep")]
              ELSE rdG
    /\ UNCHANGED <<roster, lock, writing, snapshots>>
    /\ UNCHANGED <<healthVars, discoveryVars, mergerVars, cacheVars, pollerVars, now>>

(***************************************************************************)
(* dict(self.leaderboard) and dict(self.gossips) copy the dict and not the *)
(* list it holds: the list of the returned value is the cached list for as *)
(* long as the poller has not assigned the field anew.                     *)
(***************************************************************************)
\* The returned value was read between two poll cycles and no cycle began
\* since: its list is the list the cache holds.
SharesList(rd) == rd.done /\ rd.quiet /\ rd.cycle = cycle /\ pc = "sleep"

\* The caller of get_leaderboard() empties the list of the value it got
\* (returned["leaders"].clear()).
ClearReturnedLeaders ==
    /\ SharesList(rdLB)
    /\ "leaders" \in DOMAIN rdLB.value
    /\ rdLB.value.leaders # <<>>
    /\ rdLB' = [rdLB EXCEPT !.value = [leaders |-> <<>>]]
    /\ leaderboard' = [leaderboard EXCEPT !.leaders = <<>>]
    /\ UNCHANGED <<current_round, current_stage, gossips, last_polled, rdG, snapshots>>
    /\ UNCHANGED <<serverVars, healthVars, discoveryVars, mergerVars, pollerVars, now>>

\* The caller of get_gossips() empties the list of the value it got
\* (returned["messages"].clear()).
ClearReturnedMessages ==
    /\ SharesList(rdG)
    /\ "messages" \in DOMAIN rdG.value
    /\ rdG.value.messages # <<>>
    /\ rdG' = [rdG EXCEPT !.value = [rdG.value EXCEPT !.messages = <<>>]]
    /\ gossips' = [gossips EXCEPT !.messages = <<>>]
    /\ UNCHANGED <<current_round, current_stage, leaderboard, last_polled, rdLB, snapshots>>
    /\ UNCHANGED <<serverVars, healthVars, discoveryVars, mergerVars, pollerVars, now>>

(***************************************************************************)
(* PeerDiscovery._discover_dht_peers, step by step.  A view of the store   *)
(* gives, for each call the method makes, how that call ends: it raises,   *)
(* the attribute is absent, or it returns a value.                         *)
(***************************************************************************)
AddrC == <<"/", "c">>

\* dht.get_visible_maddrs()
VisibleViews == {ReadRaises, ReadValue(<<>>), ReadValue(<<Multiaddr(AddrA)>>)}
\* dht.get_active_peers(): the str() of the addresses of its peers.
ActiveViews == {ReadAbsent, ReadRaises, ReadValue(<<<<>>, AddrB>>)}
\* dht.routing_table.buckets: the str() of the addresses of their peers.
RoutingViews == {ReadAbsent, ReadRaises, ReadValue(<<AddrC>>)}
\* The round/stage key, and the leaderboard and rewards keys of that round
\* and stage; a node id may be any text, also one that starts with '/'.
NodeIdD == <<"/", "d">>
RoundStageViews == {ReadAbsent, ReadRaises, ReadValue(<<1, 0>>)}
LeaderboardViews == {ReadAbsent, ReadRaises, ReadValue(<<PyTuple(<<PyStr(NodeIdD), 3>>)>>)}
RewardsViews == {ReadAbsent, ReadRaises, ReadValue(<<NodeIdD>>)}

\* The leaderboard and rewards keys are read only when the round/stage key
\* gave a value, and nothing is read after a call of get_visible_maddrs
\* that raised.
StoreViews ==
    {v \in [visible : VisibleViews, active : ActiveViews, routing : RoutingViews,
            rs : RoundStageViews, lb : LeaderboardViews, rewards : RewardsViews] :
        /\ v.rs.kind # "value" => v.lb = ReadAbsent /\ v.rewards = ReadAbsent
        /\ v.visible.kind # "value" =>
              v.active = ReadAbsent /\ v.routing = ReadAbsent /\ v.rs = ReadAbsent}

\* for maddr in visible_maddrs: self.discovered_peers.add(maddr)
VisibleStep(read) == {read.value[i] : i \in 1..Len(read.value)}

\* The loops over active peers and over the routing table: str(addr) is
\* added when it is not empty; a call that raises adds nothing.
AddressStep(read) ==
    IF read.kind # "value" THEN {}
    ELSE {PyStr(read.value[i]) : i \in {j \in 1..Len(read.value) : read.value[j] # <<>>}}

StoreKeysStepHarvestsIds(rs, lb, rewards) ==
    LET rs_value == get_dht_value(rs)
    IN  IF rs_value.exc # "none" THEN [added |-> {}, exc |-> TRUE]
        ELSE IF rs_value.value = None THEN [added |-> {}, exc |-> FALSE]
        ELSE LET lb_value == get_dht_value(lb)
                 rw_value == get_dht_value(rewards)
             IN  IF lb_value.exc # "none" THEN [added |-> {}, exc |-> TRUE]
                 ELSE [added |-> IF lb_value.value = None THEN {}
                                 ELSE {PyStr(Str(lb_value.value[i].items[1])) :
                                          i \in 1..Len(lb_value.value)},
                       exc |-> rw_value.exc # "none"]

\* "Look for peers in DHT store": the three keys are read and their sizes
\* logged; nothing is added.  exc tells that a read raised and was caught.
StoreKeysStep(rs, lb, rewards) ==
    LET rs_value == get_dht_value(rs)
    IN  IF rs_value.exc # "none" THEN [added |-> {}, exc |-> TRUE]
        ELSE IF rs_value.value = None THEN [added |-> {}, exc |-> FALSE]
        ELSE LET lb_value == get_dht_value(lb)
                 rw_value == get_dht_value(rewards)
             IN  IF lb_value.exc # "none" THEN [added |-> {}, exc |-> TRUE]
                 ELSE [added |-> {}, exc |-> rw_value.exc # "none"]

\* _discover_dht_peers on the set peers: the set it leaves.
discover_dht_peers(peers, view) ==
    IF view.visible.kind # "value" THEN peers
    ELSE peers \cup VisibleStep(view.visible)
               \cup AddressStep(view.active)
               \cup AddressStep(view.routing)
               \cup StoreKeysStep(view.rs, view.lb, view.rewards).added

\* One run of PeerDiscovery._discover_dht_peers.
DiscoverDhtPeers ==
    /\ \E view \in StoreViews :
          /\ discovered_peers' = discover_dht_peers(discovered_peers, view)
          /\ dop' = [op |-> "discover", view |-> view, before |-> discovered_peers,
                     store_raised |-> StoreKeysStep(view.rs, view.lb, view.rewards).exc]
    /\ UNCHANGED <<active, zeroconf, browser, enable_local_discovery, cache_file, saved, iter>>
    /\ UNCHANGED <<serverVars, healthVars, mergerVars, cacheVars, pollerVars, now, readerVars>>

(***************************************************************************)
(* get_peers and stop as steps that begin and end, with the callback of    *)
(* the browser running on its own thread in between.                       *)
(***************************************************************************)
\* get_peers up to its list comprehension: _discover_dht_peers has run and
\* the iteration over the set begins.
GetPeersBegin ==
    /\ ~iter.on
    /\ \E found \in SUBSET DhtPeers :
          /\ discovered_peers' = discovered_peers \cup found
          /\ iter' = [on |-> TRUE, by |-> "get_peers", over |-> discovered_peers \cup found]
          /\ dop' = [op |-> "get_peers_begin", found |-> found]
    /\ UNCHANGED <<active, zeroconf, browser, enable_local_discovery, cache_file, saved>>
    /\ UNCHANGED <<serverVars, healthVars, mergerVars, cacheVars, pollerVars, now, readerVars>>

\* The ways the iteration of get_peers may end: on a set that is as it was,
\* the list of its valid entries; on a set that grew meanwhile, RuntimeError
\* (Set changed size during iteration), or a list of the set as it was or
\* as it is when the entry came after the last element was taken.
IterationOutcomes(over, peers) ==
    {[raised |-> FALSE, result |-> list] : list \in GetPeersList(over)}
    \cup (IF peers = over THEN {}
          ELSE {[raised |-> TRUE, result |-> <<>>]}
               \cup {[raised |-> FALSE, result |-> list] : list \in GetPeersList(peers)})

\* get_peers returns, or raises what its iteration raised.
GetPeersEnd ==
    /\ iter.on
    /\ iter.by = "get_peers"
    /\ \E out \in IterationOutcomes(iter.over, discovered_peers) :
          dop' = [op |-> "get_peers", raised |-> out.raised, result |-> out.result]
    /\ iter' = NotIterating
    /\ UNCHANGED <<active, zeroconf, browser, enable_local_discovery, discovered_peers,
                   cache_file, saved>>
    /\ UNCHANGED <<serverVars, healthVars, mergerVars, cacheVars, pollerVars, now, readerVars>>

\* stop up to the loop of _save_cached_peers: the object is inactive, the
\* browser was cancelled and the handles released, the file is being written.
StopBegin ==
    /\ ~iter.on
    /\ active
    /\ active' = FALSE
    /\ \E unregister_fails \in BOOLEAN :
          LET local == enable_local_discovery /\ zeroconf # None
              h == IF local THEN StopLocalDiscovery(zeroconf, browser, unregister_fails)
                   ELSE [zeroconf |-> zeroconf, browser |-> browser]
          IN  /\ zeroconf' = h.zeroconf
              /\ browser' = h.browser
    /\ iter' = [on |-> TRUE, by |-> "stop", over |-> discovered_peers]
    /\ dop' = [op |-> "stop_begin"]
    /\ UNCHANGED <<enable_local_discovery, discovered_peers, cache_file, saved>>
    /\ UNCHANGED <<serverVars, healthVars, mergerVars, cacheVars, pollerVars, now, readerVars>>

\* _save_cached_peers ends and stop returns.
StopEnd ==
    /\ iter.on
    /\ iter.by = "stop"
    /\ \E save \in SaveCachedPeers(discovered_peers, cache_file) :
          /\ cache_file' = save.file
          /\ saved' = IF ~save.failed THEN [written |-> TRUE, peers |-> discovered_peers]
                      ELSE IF save.file = cache_file THEN saved
                      ELSE NoSave
          /\ dop' = [op |-> "stop", noop |-> FALSE, save_failed |-> save.failed]
    /\ iter' = NotIterating
    /\ UNCHANGED <<active, zeroconf, browser, enable_local_discovery, discovered_peers>>
    /\ UNCHANGED <<serverVars, healthVars, mergerVars, cacheVars, pollerVars, now, readerVars>>

(***************************************************************************)
(* Specifications                                                          *)
(***************************************************************************)
InitMerger ==
    /\ merged = NoResult
    /\ mfn = 0
    /\ mcalls = 0

\* Cache.__init__, and the poller about to start.
InitCache ==
    /\ current_round = -1
    /\ current_stage = -1
    /\ leaderboard = EmptyDict
    /\ gossips = EmptyDict
    /\ last_polled = -1
    /\ pc = "sleep"
    /\ cycle = 0
    /\ obs = NoObs
    /\ now = 0
    /\ rdLB = NotRead
    /\ rdG = NotRead
    /\ snapshots = {<<EmptyDict, EmptyDict>>}

InitHealth ==
    /\ health = NoHealth
    /\ roster = NoRoster
    /\ lock = "free"
    /\ writing = "none"
    /\ reading = "none"

\* A PeerDiscovery just constructed on a cache file.
InitDiscovery ==
    /\ cache_file \in InitialFiles
    /\ enable_local_discovery \in BOOLEAN
    /\ discovered_peers = LoadCachedPeers(cache_file)
    /\ zeroconf = None
    /\ browser = None
    /\ active = FALSE
    /\ saved = NoSave
    /\ iter = NotIterating
    /\ dop = [op |-> "init", file |-> cache_file]

\* No cache file, and no local discovery.
InitNoDiscovery ==
    /\ cache_file = Missing
    /\ enable_local_discovery = FALSE
    /\ discovered_peers = {}
    /\ zeroconf = None
    /\ browser = None
    /\ active = FALSE
    /\ saved = NoSave
    /\ iter = NotIterating
    /\ dop = [op |-> "init", file |-> Missing]

Init ==
    /\ outputs \in Inputs(1) \cup Inputs(2)
    /\ InitMerger
    /\ InitCache
    /\ InitHealth
    /\ InitDiscovery

Next ==
    \/ CallMerge1
    \/ CallMerge2
    \/ PollStart
    \/ GetRoundAndStage(FullEnv)
    \/ GetLeaderboard(FullEnv)
    \/ GetGossip(FullEnv)
    \/ Stamp(FullEnv)
    \/ Tick
    \/ ReadLeaderboard
    \/ ReadGossips
    \/ GetHealth
    \/ Construct
    \/ Start
    \/ Stop
    \/ LocalPeerFound
    \/ GetPeers
    \/ \E count \in 0..MaxCount : GetBootstrapPeers(count)

Spec == Init /\ [][Next]_vars

\* The merger called on every input.
InitMergerOnly ==
    /\ outputs \in Inputs(1) \cup Inputs(2)
    /\ InitMerger
    /\ InitCache
    /\ InitHealth
    /\ InitNoDiscovery
NextMerger == CallMerge1 \/ CallMerge2
SpecMerger == InitMergerOnly /\ [][NextMerger]_vars

\* The poller alone, on every store.
InitPoller == outputs = <<>> /\ InitMerger /\ InitCache /\ InitHealth /\ InitNoDiscovery
NextCache ==
    \/ PollStart
    \/ GetRoundAndStage(FullEnv)
    \/ GetLeaderboard(FullEnv)
    \/ GetGossip(FullEnv)
    \/ Stamp(FullEnv)
SpecCache == InitPoller /\ [][NextCache]_vars

\* The poller and a reader.
NextReaders ==
    \/ PollStart
    \/ GetRoundAndStage(SmallEnv)
    \/ GetLeaderboard(SmallEnv)
    \/ GetGossip(SmallEnv)
    \/ Stamp(SmallEnv)
    \/ ReadLeaderboard
    \/ ReadGossips
SpecReaders == InitPoller /\ [][NextReaders]_vars

\* The poller, the wall clock and the health check.
NextClock ==
    \/ PollStart
    \/ GetRoundAndStage(ClockEnv)
    \/ GetLeaderboard(ClockEnv)
    \/ GetGossip(ClockEnv)
    \/ Stamp(ClockEnv)
    \/ Tick
    \/ GetHealth
SpecClock == InitPoller /\ [][NextClock]_vars

\* The poll loop for ever: the thread is scheduled, its sleep ends and a
\* store read returns or raises.
NextLoop ==
    \/ PollStart
    \/ PollAgain
    \/ GetRoundAndStage(ClockEnv)
    \/ GetLeaderboard(ClockEnv)
    \/ GetGossip(ClockEnv)
    \/ Stamp(ClockEnv)
SpecLoop == InitPoller /\ [][NextLoop]_vars /\ WF_vars(NextLoop)

\* A discovery object started and stopped, asked for its peers, and
\* constructed anew when the process restarts.
InitPeers == outputs = <<>> /\ InitMerger /\ InitCache /\ InitHealth /\ InitDiscovery
NextDiscovery ==
    \/ Construct
    \/ Start
    \/ Stop
    \/ LocalPeerFound
    \/ GetPeers
SpecDiscovery == InitPeers /\ [][NextDiscovery]_vars

\* A discovery object in one run of the process, asked for bootstrap peers.
NextBootstrap ==
    \/ Start
    \/ LocalPeerFound
    \/ GetPeers
    \/ \E count \in 0..MaxCount : GetBootstrapPeers(count)
SpecBootstrap == InitPeers /\ [][NextBootstrap]_vars

\* The server answering its peers endpoint while discovery runs.
NextRoster ==
    \/ Start
    \/ LocalPeerFound
    \/ get_peers
SpecRoster == InitPeers /\ [][NextRoster]_vars

\* The poller writing the fields of the cache under its lock while request
\* handlers read them.
NextLock ==
    \/ PollStart
    \/ LockAcquire
    \/ LockedWrite
    \/ StepFails
    \/ \E op \in {"get_leaderboard", "get_gossips", "get_last_polled"} : ReadBegin(op)
    \/ ReadEnd
SpecLock == InitPoller /\ [][NextLock]_vars

\* The poller, request handlers reading the cache, and callers changing
\* the values they were returned.
NextCopy ==
    \/ PollStart
    \/ GetRoundAndStage(SmallEnv)
    \/ GetLeaderboard(SmallEnv)
    \/ GetGossip(SmallEnv)
    \/ Stamp(SmallEnv)
    \/ ReadLeaderboard
    \/ ReadGossips
    \/ ClearReturnedLeaders
    \/ ClearReturnedMessages
SpecCopy == InitPoller /\ [][NextCopy]_vars

\* Store-based discovery run again and again on a constructed object, on
\* every view of the store.
NextHarvest ==
    \/ DiscoverDhtPeers
SpecHarvest == InitPeers /\ [][NextHarvest]_vars

\* One discovery object through all of its operations and its callback.
NextInstance ==
    \/ Start
    \/ Stop
    \/ LocalPeerFound
    \/ GetPeers
    \/ \E count \in 0..MaxCount : GetBootstrapPeers(count)
SpecInstance == InitPeers /\ [][NextInstance]_vars

\* One caller of the discovery object at a time, and the browser's thread
\* calling back whenever the browser runs.
StartBetweenCalls == ~iter.on /\ Start
NextRace ==
    \/ StartBetweenCalls
    \/ LocalPeerFound
    \/ GetPeersBegin
    \/ GetPeersEnd
    \/ StopBegin
    \/ StopEnd
SpecRace == InitPeers /\ [][NextRace]_vars

(***************************************************************************)
(* Properties of the merger.                                               *)
(***************************************************************************)
\* An entry the fold accepts: all required keys, and a dict contribution.
IsValidEntry(stage, o) == HasKeys(o, StageKeys(stage)) /\ IsDict(o[ContribKey(stage)])
ValidEntries(outs, stage) == {i \in 1..Len(outs) : IsValidEntry(stage, outs[i][2])}
EntryContrib(outs, stage, i) == outs[i][2][ContribKey(stage)].items
\* The valid entries that say something about key k.
Providers(outs, stage, k) ==
    {i \in ValidEntries(outs, stage) : k \in DOMAIN EntryContrib(outs, stage, i)}
Last(S) == CHOOSE i \in S : \A j \in S : j <= i
ResultContrib == IF mfn = 1 THEN merged.agent_answers ELSE merged.agent_opinion
Returned == mfn # 0 /\ ~merged.raised

\* C1 as stated: the key set of the returned contribution map equals the
\* set of agent ids of the input exactly.
C1_KeySetEqualsInputIds ==
    mfn # 0 => Returned /\ DOMAIN ResultContrib = AgentIds(outputs)

\* C1, amended: the key set of the returned contribution map is the set of
\* agent ids of the input together with the keys of the contribution maps
\* of the valid entries; so every agent id of the input is a key, and the
\* key set equals the input's agent ids exactly when every valid entry
\* contributes under agent ids of the input only.
C1_KeySetIsInputIdsAndContributedKeys ==
    mfn # 0 =>
        /\ Returned
        /\ DOMAIN ResultContrib =
              AgentIds(outputs) \cup
              UNION {DOMAIN EntryContrib(outputs, mfn, i) : i \in ValidEntries(outputs, mfn)}
        /\ AgentIds(outputs) \subseteq DOMAIN ResultContrib
        /\ (\A i \in ValidEntries(outputs, mfn) :
                DOMAIN EntryContrib(outputs, mfn, i) \subseteq AgentIds(outputs))
             => DOMAIN ResultContrib = AgentIds(outputs)

\* A call returned on an input with a malformed entry and a valid entry
\* that contributes under an agent id the input does not have.
C1_Witness ==
    /\ Returned
    /\ ValidEntries(outputs, mfn) # {}
    /\ ValidEntries(outputs, mfn) # 1..Len(outputs)
    /\ \E i \in ValidEntries(outputs, mfn) :
          ~(DOMAIN EntryContrib(outputs, mfn, i) \subseteq AgentIds(outputs))

\* The input with every malformed entry's output replaced by an empty dict.
Neutralized(outs, stage) ==
    [i \in 1..Len(outs) |->
        IF IsValidEntry(stage, outs[i][2]) THEN outs[i] ELSE <<outs[i][1], EmptyDict>>]
MergeOf(stage, outs) ==
    IF stage = 1 THEN merge_stage1_question(outs) ELSE merge_stage2_question(outs)

\* C2: on an input with malformed entries (a required key missing, or a
\* contribution that is no dict) the merger returns instead of raising,
\* and the result is the one the input gives with the content of every
\* malformed entry removed: question, answer and stage2_prompt are None or
\* those of a valid entry, and every contributed value comes from a valid
\* entry or is the placeholder.
C2_MalformedEntriesAreSkipped ==
    mfn # 0 =>
        /\ ~merged.raised
        /\ merged = MergeOf(mfn, Neutralized(outputs, mfn))
        /\ \/ merged.question = None /\ merged.answer = None
           \/ \E i \in ValidEntries(outputs, mfn) :
                /\ merged.question = outputs[i][2]["question"]
                /\ merged.answer = outputs[i][2]["answer"]
        /\ \A k \in DOMAIN ResultContrib :
              \/ ResultContrib[k] \in {"No answer received...", "No feedback received..."}
              \/ \E i \in Providers(outputs, mfn, k) :
                    ResultContrib[k] = EntryContrib(outputs, mfn, i)[k]

\* A call returned on an input holding an entry with a missing key and an
\* entry whose contribution is a string.
C2_Witness ==
    /\ Returned
    /\ \E i \in 1..Len(outputs) : ~HasKeys(outputs[i][2], StageKeys(mfn))
    /\ \E i \in 1..Len(outputs) :
          /\ HasKeys(outputs[i][2], StageKeys(mfn))
          /\ ~IsDict(outputs[i][2][ContribKey(mfn)])

C4_PlaceholderOnlyForMissingAgents ==
    mfn # 0 =>
        /\ Returned
        /\ \A a \in AgentIds(outputs) :
              IF Providers(outputs, mfn, a) = {}
              THEN ResultContrib[a] =
                     (IF mfn = 1 THEN "No answer received..." ELSE "No feedback received...")
              ELSE ResultContrib[a] =
                     EntryContrib(outputs, mfn, Last(Providers(outputs, mfn, a)))[a]

\* A stage-2 call returned on an input where one agent was contributed
\* under and another, whose own entry is malformed, was not.
C4_Witness ==
    /\ mfn = 2
    /\ Returned
    /\ \E a \in AgentIds(outputs) : Providers(outputs, mfn, a) # {}
    /\ \E i \in 1..Len(outputs) :
          /\ ~IsValidEntry(mfn, outputs[i][2])
          /\ Providers(outputs, mfn, outputs[i][1]) = {}

\* C5: question, answer (and stage2_prompt) are those of the last valid
\* entry in iteration order, and every contributed key holds the value of
\* the last valid entry that contributes under it.
C5_LastValidEntryWins ==
    (mfn # 0 /\ ValidEntries(outputs, mfn) # {}) =>
        LET l == Last(ValidEntries(outputs, mfn))
        IN  /\ Returned
            /\ merged.question = outputs[l][2]["question"]
            /\ merged.answer = outputs[l][2]["answer"]
            /\ mfn = 2 => merged.stage2_prompt = outputs[l][2]["stage2_prompt"]
            /\ \A k \in DOMAIN ResultContrib :
                  Providers(outputs, mfn, k) # {} =>
                     ResultContrib[k] =
                        EntryContrib(outputs, mfn, Last(Providers(outputs, mfn, k)))[k]

\* A call returned on two valid entries with different questions that
\* contribute different values under the same key.
C5_Witness ==
    /\ Returned
    /\ Len(outputs) = 2
    /\ ValidEntries(outputs, mfn) = {1, 2}
    /\ outputs[1][2]["question"] # outputs[2][2]["question"]
    /\ \E k \in DOMAIN EntryContrib(outputs, mfn, 1) \cap DOMAIN EntryContrib(outputs, mfn, 2) :
          EntryContrib(outputs, mfn, 1)[k] # EntryContrib(outputs, mfn, 2)[k]

(***************************************************************************)
(* Properties of the cache.                                                *)
(***************************************************************************)
\* C6 as stated: a reader that has read the leaderboard and the gossip feed
\* holds the pair some poll cycle left behind (or the initial pair), never
\* the leaderboard of one cycle with the gossip of another.
C6_NeverTorn ==
    (rdLB.done /\ rdG.done /\ pc = "sleep") => <<rdLB.value, rdG.value>> \in snapshots

\* C6, amended: each field is replaced whole, so what a read returns is a
\* leaderboard (a gossip feed) that some poll cycle published or the
\* initial one; the two fields are written at different moments of a
\* cycle, so only a reader whose two reads both fall while the poller
\* sleeps between the same two cycles is sure to hold one full snapshot.
C6_WholeFieldsAndQuietReadsAgree ==
    /\ rdLB.done => rdLB.value \in {s[1] : s \in snapshots} \cup {leaderboard}
    /\ rdG.done => rdG.value \in {s[2] : s \in snapshots} \cup {gossips}
    /\ (rdLB.done /\ rdG.done /\ rdLB.quiet /\ rdG.quiet /\ rdLB.cycle = rdG.cycle)
          => <<rdLB.value, rdG.value>> \in snapshots

\* Both reads fell in the sleep after a cycle that published a leaderboard
\* and a gossip feed.
C6_Witness ==
    /\ rdLB.done /\ rdG.done
    /\ rdLB.quiet /\ rdG.quiet
    /\ rdLB.cycle = rdG.cycle /\ rdLB.cycle >= 1
    /\ rdLB.value # EmptyDict
    /\ rdG.value # EmptyDict
    /\ rdG.value.messages # <<>>

\* C7: a failed read of the round/stage key (absent, malformed, or the
\* store raising) leaves the cached round and stage as they were, and no
\* step takes a round or stage that was observed back to -1.
C7_RoundStageKeptOnFailure ==
    [][/\ (pc = "rs" /\ obs'.step = "rs" /\ obs'.exc # "none")
            => (current_round' = current_round /\ current_stage' = current_stage)
       /\ current_round # -1 => current_round' # -1
       /\ current_stage # -1 => current_stage' # -1]_vars

\* The round/stage key was absent or malformed in a cycle after one that
\* observed a round.
C7_Witness ==
    /\ obs.step = "rs"
    /\ obs.read \in {"absent", "malformed"}
    /\ cycle >= 2
    /\ current_round # -1
    /\ current_stage # -1

\* C8 as stated: when the read of the leaderboard key raises or finds the
\* key absent, the cached leaderboard is the same after the step.
C8_LeaderboardKeptOnRaiseOrAbsent ==
    [][(pc = "lb" /\ obs'.step = "lb" /\ obs'.read \in {"raise", "absent"})
          => leaderboard' = leaderboard]_vars

\* C8, amended: when the read of the leaderboard key raises, or the value
\* read cannot be transformed, the cached leaderboard is the same after
\* the step; an absent key is read as an empty list and the cached
\* leaderboard becomes {leaders: []}.
C8_LeaderboardKeptOnRaiseEmptiedOnAbsent ==
    [][(pc = "lb" /\ obs'.step = "lb")
          => /\ obs'.read = "raise" => leaderboard' = leaderboard
             /\ obs'.exc # "none" => leaderboard' = leaderboard
             /\ obs'.read = "absent" => leaderboard' = [leaders |-> <<>>]]_vars

\* The read raised in a cycle after one that cached a leaderboard with
\* entries.
C8_Witness ==
    /\ obs.step = "lb"
    /\ obs.read = "raise"
    /\ leaderboard # EmptyDict
    /\ leaderboard.leaders # <<>>

\* C9: when the rewards key is absent, the cached gossip feed is the same
\* after the gossip step.
C9_GossipKeptWhenRewardsAbsent ==
    [][(pc = "gossip" /\ obs'.step = "gossip" /\ obs'.read = "absent")
          => gossips' = gossips]_vars

\* The triples (node, round, stage) of the look-back window of r and s.
LookBackWindow(r, s, nodes) ==
    {<<nodes[i], round, stage>> :
        i \in 1..Len(nodes),
        round \in (IF r - 20 > 0 THEN r - 20 ELSE 0)..r,
        stage \in 0..s}

IsDescendingFeedOf(feed, collected) ==
    /\ Len(feed) = Len(collected)
    /\ \E f \in [1..Len(collected) -> 1..Len(collected)] :
          /\ \A i, j \in 1..Len(collected) : i # j => f[i] # f[j]
          /\ \A i \in 1..Len(collected) : feed[i] = collected[f[i]][2]
          /\ \A i \in 1..(Len(collected) - 1) : collected[f[i]][1] >= collected[f[i + 1]][1]

\* C11: after the gossip step of a poll cycle the cached feed holds all the
\* messages the step collected, ordered descending by timestamp, also when
\* two of them carry the same timestamp, and is the empty list when nothing
\* was collected.  (Equal timestamps are allowed to stand in either order.)
C11_FeedHoldsAllCollectedDescending ==
    (obs.step = "gossip" /\ obs.exc = "none") =>
        /\ gossips # EmptyDict
        /\ gossips.currentRound = current_round
        /\ gossips.currentStage = current_stage
        /\ IsDescendingFeedOf(gossips.messages, obs.msgs)

\* C12: after a leaderboard read that returned a list of (id, score)
\* tuples, the cached leaderboard has one entry {id, score, values: []} per
\* tuple, in the order of the list, repeated tuples included.
C12_OneEntryPerTupleInOrder ==
    (obs.step = "lb" /\ obs.read = "value" /\ obs.exc = "none") =>
        /\ leaderboard # EmptyDict
        /\ DOMAIN leaderboard = {"leaders"}
        /\ Len(leaderboard.leaders) = Len(obs.raw.value)
        /\ \A i \in 1..Len(obs.raw.value) :
              /\ DOMAIN leaderboard.leaders[i] = {"id", "score", "values"}
              /\ leaderboard.leaders[i].id = Str(obs.raw.value[i].items[1])
              /\ leaderboard.leaders[i].score = obs.raw.value[i].items[2]
              /\ leaderboard.leaders[i].values = <<>>

\* The store held the same (id, score) tuple twice, and the cached
\* leaderboard has both.
C12_Witness ==
    /\ obs.step = "lb" /\ obs.read = "value" /\ obs.exc = "none"
    /\ Len(obs.raw.value) = 2
    /\ obs.raw.value[1] = obs.raw.value[2]
    /\ Len(leaderboard.leaders) = 2
    /\ leaderboard.leaders[1] = leaderboard.leaders[2]

\* C13: a poll cycle that was started goes on to the end of poll_dht
\* whatever its steps did, the end of poll_dht records the wall-clock time
\* as last_polled, and last_polled never decreases.
C13_EveryCycleStampsTheClock ==
    [][/\ (pc \in {"rs", "lb", "gossip"} /\ pc' # pc) => pc' \in {"lb", "gossip", "stamp"}
       /\ (pc = "stamp" /\ pc' # pc) => (pc' = "sleep" /\ last_polled' = now)
       /\ (pc' = "sleep" /\ pc # "sleep") => pc = "stamp"
       /\ last_polled' >= last_polled]_vars

\* A second cycle, begun later than the first, ended with the time
\* recorded although its first step raised and the two others never ran.
C13_Witness ==
    /\ pc = "sleep"
    /\ cycle = 2
    /\ obs.step = "rs"
    /\ obs.exc = "RuntimeError"
    /\ last_polled = now
    /\ now > 0

\* C14: the health check answers failure when no poll cycle has run or the
\* last one ended more than 5 minutes ago, and success when the last one
\* ended at most 5 minutes ago.
C14_HealthFollowsLastPoll ==
    health # NoHealth =>
        (health.status = 200
            <=> (health.last # -1 /\ health.at - health.last <= STALE_MINUTES))

C16_RedundantStartStopAreNoOps ==
    [][/\ ((dop'.op = "start" /\ active) \/ (dop'.op = "stop" /\ ~active))
            => /\ UNCHANGED <<active, discovered_peers, zeroconf, browser, cache_file,
                              enable_local_discovery>>
               /\ ~dop'.ran_discovery
               /\ ~dop'.wrote_file
       /\ (~active /\ active') => dop'.op = "start"
       /\ (active /\ ~active') => dop'.op \in {"stop", "init"}]_vars

\* start() was called on a discovery that was started, browsing and with
\* peers discovered.
C16_Witness ==
    /\ dop.op = "start"
    /\ dop.noop
    /\ active
    /\ browser # None
    /\ discovered_peers # {}

\* C17: get_bootstrap_peers(count) returns at most count entries, all of
\* them entries of the get_peers() list, none twice, and the whole list
\* when it has at most count entries.
C17_BootstrapPeersAreFewAndDistinct ==
    dop.op = "get_bootstrap_peers" =>
        /\ Len(dop.result) <= dop.count
        /\ \A i \in 1..Len(dop.result) : \E j \in 1..Len(dop.peers) : dop.result[i] = dop.peers[j]
        /\ \A i, j \in 1..Len(dop.result) : i # j => dop.result[i] # dop.result[j]
        /\ Len(dop.peers) <= dop.count => dop.result = dop.peers
        /\ {dop.peers[j] : j \in 1..Len(dop.peers)} \subseteq discovered_peers

\* Three peers were known and two were asked for.
C17_Witness ==
    /\ dop.op = "get_bootstrap_peers"
    /\ Len(dop.peers) = 3
    /\ dop.count = 2
    /\ Len(dop.result) = 2

\* C18: get_peers() returns, after the store-based discovery has added what
\* it found, exactly the entries of the discovered set that are non-empty
\* and start with '/', each once.
C18_GetPeersReturnsTheValidEntries ==
    dop.op = "get_peers" =>
        /\ dop.found \subseteq discovered_peers
        /\ {dop.result[i] : i \in 1..Len(dop.result)}
              = {p \in discovered_peers : StrOfPeer(p) # <<>> /\ StrOfPeer(p)[1] = "/"}
        /\ \A i, j \in 1..Len(dop.result) : i # j => dop.result[i] # dop.result[j]

\* The discovered set held an entry of the cache file that is no address,
\* the store gave a peer, and two entries were returned.
C18_Witness ==
    /\ dop.op = "get_peers"
    /\ PyStr(NotAnAddr) \in discovered_peers
    /\ dop.found # {}
    /\ Len(dop.result) >= 2

\* C19: the local-broadcast handles are set in the Started state only, and
\* a stop() from Started leaves zeroconf and browser unset and raises
\* nothing, also when unregistering fails and when the write of the cache
\* file fails.
C19_HandlesReleasedOnStop ==
    /\ [](~active => (zeroconf = None /\ browser = None))
    /\ [][(active /\ dop'.op = "stop")
             => (~active' /\ zeroconf' = None /\ browser' = None /\ ~dop'.raised)]_vars

\* A stop() of a browsing discovery in which both the unregistering and
\* the write of the cache file failed.
C19_Witness ==
    /\ dop.op = "stop"
    /\ ~dop.noop
    /\ dop.had_handles
    /\ dop.unregister_failed
    /\ dop.save_failed
    /\ zeroconf = None
    /\ browser = None

\* C20: a discovery constructed on the cache file a stop() wrote starts
\* with the peers that were written (an entry being the text the file holds
\* for it); constructed on a missing or unreadable cache file it starts with
\* no peers.
C20_PeersPersistAcrossRestarts ==
    dop.op = "init" =>
        /\ dop.file = cache_file
        /\ saved.written =>
              discovered_peers = {PyStr(StrOfPeer(p)) : p \in saved.peers}
        /\ (~cache_file.exists \/ ~cache_file.readable) => discovered_peers = {}

\* A discovery constructed on a file that holds three peers written by a
\* stop(), one of them a Multiaddr object when it was written.
C20_Witness ==
    /\ dop.op = "init"
    /\ saved.written
    /\ Cardinality(saved.peers) = 3
    /\ \E p \in saved.peers : p.type = "Multiaddr"
    /\ Cardinality(discovered_peers) >= 2

(***************************************************************************)
(* More properties of the merger.                                          *)
(***************************************************************************)
\* C28: a call on an input without a valid entry (the empty input among
\* them) returns null for question, answer (and stage2_prompt) and a
\* contribution map that holds the placeholder for every agent id of the
\* input and nothing else; a call on an input with a valid entry returns
\* the question, answer (and stage2_prompt) of one and the same entry.
C28_TextsComeFromOneEntryOrAreNull ==
    mfn # 0 =>
        /\ Returned
        /\ ValidEntries(outputs, mfn) = {} =>
              /\ merged.question = None
              /\ merged.answer = None
              /\ mfn = 2 => merged.stage2_prompt = None
              /\ DOMAIN ResultContrib = {outputs[i][1] : i \in 1..Len(outputs)}
              /\ \A a \in DOMAIN ResultContrib :
                    ResultContrib[a] = IF mfn = 1 THEN "No answer received..."
                                       ELSE "No feedback received..."
        /\ ValidEntries(outputs, mfn) # {} =>
              \E i \in ValidEntries(outputs, mfn) :
                 /\ merged.question = outputs[i][2]["question"]
                 /\ merged.answer = outputs[i][2]["answer"]
                 /\ mfn = 2 => merged.stage2_prompt = outputs[i][2]["stage2_prompt"]

\* A call returned on an input of two agents whose entries are both
\* malformed.
C28_Witness ==
    /\ Returned
    /\ Len(outputs) = 2
    /\ ValidEntries(outputs, mfn) = {}
    /\ merged.question = None
    /\ Cardinality(DOMAIN ResultContrib) = 2

(***************************************************************************)
(* Properties of the server's endpoints and of the cache's lock.           *)
(***************************************************************************)
\* C21: the roster the peers endpoint returns has no two entries with the
\* same multiaddr.
C21_RosterHasNoRepeatedMultiaddr ==
    roster.answered =>
        \A i, j \in 1..Len(roster.peers) :
            i # j => roster.peers[i].multiaddr # roster.peers[j].multiaddr

\* C22: a field is written only while the poller holds the lock, a read
\* holds the lock while it copies, and no read overlaps a write.
C22_ReadsAndWritesHoldTheLock ==
    /\ writing # "none" => lock = "poller"
    /\ reading # "none" => lock = "reader"
    /\ ~(writing # "none" /\ reading # "none")

\* C23: a step of a request handler, a read of the cache or a change of the
\* value a read returned, leaves round, stage, leaderboard, gossip and
\* last_polled as they were and starts no poll cycle.
C23_ReadsAndCopiesLeaveTheCacheUnchanged ==
    [][(rdLB' # rdLB \/ rdG' # rdG) => UNCHANGED <<cacheVars, pollerVars>>]_vars

(***************************************************************************)
(* Properties of store-based and local discovery.                          *)
(***************************************************************************)
\* The addresses a view offers: its visible multiaddrs and the addresses of
\* its active and routing-table peers.
AddressesOf(view) ==
    {view.visible.value[i] : i \in 1..Len(view.visible.value)}
    \cup (IF view.active.kind = "value"
          THEN {PyStr(view.active.value[i]) : i \in 1..Len(view.active.value)} ELSE {})
    \cup (IF view.routing.kind = "value"
          THEN {PyStr(view.routing.value[i]) : i \in 1..Len(view.routing.value)} ELSE {})

\* C24: a run of store-based discovery removes nothing from the discovered
\* set and adds only addresses of the visible list, the active peers and
\* the routing table; the round/stage, leaderboard and rewards keys add
\* nothing whatever they hold, and when reading them raises, the addresses
\* harvested before are all in the set.
C24_OnlyAddressesAreHarvested ==
    dop.op = "discover" =>
        /\ dop.before \subseteq discovered_peers
        /\ dop.view.visible.kind # "value" => discovered_peers = dop.before
        /\ dop.view.visible.kind = "value" =>
              /\ (discovered_peers \ dop.before) \subseteq AddressesOf(dop.view)
              /\ PyStr(NodeIdD) \notin (discovered_peers \ dop.before)
              /\ \A p \in AddressesOf(dop.view) : StrOfPeer(p) # <<>> => p \in discovered_peers

\* A run that read a leaderboard holding an id that looks like an address,
\* whose read of the rewards key raised, and that harvested the visible
\* address.
C24_Witness ==
    /\ dop.op = "discover"
    /\ dop.view.rs.kind = "value"
    /\ dop.view.lb.kind = "value"
    /\ dop.view.rewards.kind = "raise"
    /\ dop.store_raised
    /\ Multiaddr(AddrA) \in discovered_peers \ dop.before
    /\ PyStr(AddrC) \in discovered_peers

\* C25: what start(), get_peers() and stop() do to the active flag, the
\* discovered set, the list returned and the cache file is fixed by those
\* four and by what the store and the file system gave, and by nothing of
\* the local-broadcast capability (enabled or not, started or failed).
C25_LocalCapabilityDoesNotShowThrough ==
    [][ /\ dop'.op = "start" =>
              /\ active'
              /\ cache_file' = cache_file
              /\ discovered_peers' = IF active THEN discovered_peers
                                     ELSE discovered_peers \cup dop'.found
        /\ dop'.op = "get_peers" =>
              /\ active' = active
              /\ cache_file' = cache_file
              /\ discovered_peers' = discovered_peers \cup dop'.found
              /\ dop'.result \in GetPeersList(discovered_peers')
        /\ dop'.op = "stop" =>
              /\ ~active'
              /\ discovered_peers' = discovered_peers
              /\ IF active
                 THEN \E save \in SaveCachedPeers(discovered_peers, cache_file) :
                         cache_file' = save.file
                 ELSE cache_file' = cache_file
      ]_vars

\* A start with local discovery enabled whose local start failed: the
\* object is active without handles and holds what the store gave.
C25_Witness ==
    /\ dop.op = "start"
    /\ ~dop.noop
    /\ dop.local_failed
    /\ enable_local_discovery
    /\ zeroconf = None
    /\ active
    /\ dop.found # {}
    /\ dop.found \subseteq discovered_peers

\* C26: no operation of a discovery object and no callback of its browser
\* removes an address from the discovered set.
C26_DiscoveredSetOnlyGrows ==
    [][discovered_peers \subseteq discovered_peers']_vars

\* The callback ran for a peer the store refused to connect to, on a set
\* that holds an address harvested from the store: both are in the set.
C26_Witness ==
    /\ dop.op = "mdns"
    /\ dop.connect_failed
    /\ dop.peer \in discovered_peers
    /\ Multiaddr(AddrA) \in discovered_peers

\* C27: while get_peers or stop iterates over the discovered set, no step
\* changes the set; no callback adds an address once stop is persisting.
C27_SetUntouchedWhileIterated ==
    [][iter.on => /\ discovered_peers' = discovered_peers
                  /\ iter.by = "stop" => dop'.op # "mdns"]_vars

====
